---- MODULE Spec2Model ----
(***************************************************************************)
(* Model of provision/aci-containers-provision.py: the configuration       *)
(* derivation pipeline (deep_merge, cidr_split, config_validate,           *)
(* config_adjust, config_advise, the output generators and main).          *)
(***************************************************************************)
EXTENDS Integers, Sequences, FiniteSets, TLC

VARIABLES
    args,         \* the parsed command line (argparse namespace)
    yaml_doc,     \* what yaml.load returns for the user's input document
    apic_file,    \* main's second parameter (target of the descriptor)
    pc,           \* position of main
    prov_apic,    \* provisioning intent: None / True / False
    config,       \* the configuration tree, mutated in place by main
    adj_config,   \* the tree returned by config_adjust
    ret,          \* main's return value
    exc,          \* the exception that left main, if any
    log,          \* lines printed to stderr by info/warn/err
    calls,        \* calls made on the fabric controller client, in order
    files,        \* artifacts written so far
    valid,        \* what config_validate returned to main
    stages,       \* the stages main has run, in order
    call          \* a single call of a pure function (function specifications)

vars == <<args, yaml_doc, apic_file, pc, prov_apic, config, adj_config,
          ret, exc, log, calls, files, valid, stages, call>>

-----------------------------------------------------------------------------
\* Python values.  Every value is a record of the same shape: kind is the
\* Python type, num holds the digits of a number or the octets of a string in
\* dotted form ("10.2.0.1" is <<10,2,0,1>>, "10.2.0.1/16" is <<10,2,0,1,16>>),
\* str the text of any other string, items the elements of a list and kids
\* the entries of a dict.

NoKids == [k \in {} |-> 0]

PyNone == [kind |-> "none", num |-> <<>>, str |-> "", items |-> <<>>, kids |-> NoKids]

PyBool(b) == [kind |-> "bool", num |-> <<IF b THEN 1 ELSE 0>>, str |-> "",
              items |-> <<>>, kids |-> NoKids]

PyInt(n) == [kind |-> "int", num |-> <<n>>, str |-> "", items |-> <<>>, kids |-> NoKids]

PyStr(s) == [kind |-> "str", num |-> <<>>, str |-> s, items |-> <<>>, kids |-> NoKids]

\* a string in dotted-quad form, or "a.b.c.d/n" when five numbers are given
PyDotted(o) == [kind |-> "str", num |-> o, str |-> "", items |-> <<>>, kids |-> NoKids]

PyList(s) == [kind |-> "list", num |-> <<>>, str |-> "", items |-> s, kids |-> NoKids]

PyDict(f) == [kind |-> "dict", num |-> <<>>, str |-> "", items |-> <<>>, kids |-> f]

\* an exception raised instead of a value
Raise(e) == [kind |-> "raise", num |-> <<>>, str |-> e, items |-> <<>>, kids |-> NoKids]

IsDict(v) == v.kind = "dict"

IsRaise(v) == v.kind = "raise"

\* Python truth value: bool(v)
Truthy(v) ==
    CASE v.kind = "none" -> FALSE
      [] v.kind = "bool" -> v.num[1] = 1
      [] v.kind = "int"  -> v.num[1] # 0
      [] v.kind = "str"  -> v.str # "" \/ v.num # <<>>
      [] v.kind = "list" -> v.items # <<>>
      [] v.kind = "dict" -> DOMAIN v.kids # {}
      [] OTHER -> FALSE

\* d[k] for a key: KeyError when absent, TypeError when d is no dict
Subscript(d, k) ==
    IF IsRaise(d) THEN d
    ELSE IF ~IsDict(d) THEN Raise("TypeError")
    ELSE IF k \notin DOMAIN d.kids THEN Raise("KeyError")
    ELSE d.kids[k]

\* d[k1][k2]...
RECURSIVE SubscriptPath(_, _)
SubscriptPath(d, p) ==
    IF p = <<>> THEN d ELSE SubscriptPath(Subscript(d, Head(p)), Tail(p))

\* d[k] = v on a dict d
SetItem(d, k, v) ==
    PyDict([x \in DOMAIN d.kids \cup {k} |-> IF x = k THEN v ELSE d.kids[x]])

-----------------------------------------------------------------------------
\* deep_merge (lines 42-49).  The function changes user in place and returns
\* it; the value here is the tree user holds afterwards, which is what main,
\* ignoring the return value, goes on with.

\* mutant: a key present in both trees takes the default's value
RECURSIVE deep_merge_default_wins(_, _)
deep_merge_default_wins(user, default) ==
    IF IsDict(user) /\ IsDict(default)
    THEN PyDict([k \in DOMAIN user.kids \cup DOMAIN default.kids |->
            IF k \notin DOMAIN default.kids THEN user.kids[k]
            ELSE IF k \notin DOMAIN user.kids THEN default.kids[k]
            ELSE IF IsDict(user.kids[k]) /\ IsDict(default.kids[k])
                 THEN deep_merge_default_wins(user.kids[k], default.kids[k])
                 ELSE default.kids[k]])
    ELSE user

RECURSIVE deep_merge(_, _)
deep_merge(user, default) ==
    IF IsDict(user) /\ IsDict(default)
    THEN PyDict([k \in DOMAIN user.kids \cup DOMAIN default.kids |->
            IF k \notin DOMAIN default.kids THEN user.kids[k]
            ELSE IF k \notin DOMAIN user.kids THEN default.kids[k]
            ELSE deep_merge(user.kids[k], default.kids[k])])
    ELSE user

-----------------------------------------------------------------------------
\* Python integers of cidr_split.  A value n, which may exceed 32 bits, is the
\* pair <<n \div 65536, n % 65536>>, so that no intermediate result is
\* truncated; <<-1, 65535>> is -1.

RECURSIVE Or16(_, _)
Or16(a, b) ==
    IF a = 0 THEN b
    ELSE IF b = 0 THEN a
    ELSE (IF a % 2 = 1 \/ b % 2 = 1 THEN 1 ELSE 0) + 2 * Or16(a \div 2, b \div 2)

RECURSIVE And16(_, _)
And16(a, b) ==
    IF a = 0 \/ b = 0 THEN 0
    ELSE (IF a % 2 = 1 /\ b % 2 = 1 THEN 1 ELSE 0) + 2 * And16(a \div 2, b \div 2)

RECURSIVE Xor16(_, _)
Xor16(a, b) ==
    IF a = 0 THEN b
    ELSE IF b = 0 THEN a
    ELSE (IF a % 2 # b % 2 THEN 1 ELSE 0) + 2 * Xor16(a \div 2, b \div 2)

\* a | b
WideOr(a, b) == <<Or16(a[1], b[1]), Or16(a[2], b[2])>>

\* a & b
WideAnd(a, b) == <<And16(a[1], b[1]), And16(a[2], b[2])>>

\* a ^ b
WideXor(a, b) == <<Xor16(a[1], b[1]), Xor16(a[2], b[2])>>

\* a + 1
WideInc(a) == IF a[2] = 65535 THEN <<a[1] + 1, 0>> ELSE <<a[1], a[2] + 1>>

\* a - 1
WideDec(a) == IF a[2] = 0 THEN <<a[1] - 1, 65535>> ELSE <<a[1], a[2] - 1>>

\* a < b
WideLess(a, b) == a[1] < b[1] \/ (a[1] = b[1] /\ a[2] < b[2])

\* 0xffffffff
AllOnes == <<65535, 65535>>

\* int('1' * h, 2) for h in 1..32: the number whose h low bits are set
Ones(h) == IF h <= 16 THEN <<0, 2^h - 1>> ELSE <<2^(h - 16) - 1, 65535>>

\* struct.unpack("!I", socket.inet_aton(a))[0] (line 120)
ip2int(o) == <<o[1] * 256 + o[2], o[3] * 256 + o[4]>>

\* socket.inet_ntoa(struct.pack("!I", a)) (line 121): struct.error when a does
\* not fit an unsigned 32-bit integer
int2ip(a) ==
    IF a[1] < 0 \/ a[1] > 65535 THEN Raise("struct.error")
    ELSE PyDotted(<<a[1] \div 256, a[1] % 256, a[2] \div 256, a[2] % 256>>)

PyTuple(s) == [kind |-> "tuple", num |-> <<>>, str |-> "", items |-> s, kids |-> NoKids]

\* the first exception among the values of a sequence, PyNone if there is none
RECURSIVE FirstRaise(_)
FirstRaise(s) ==
    IF s = <<>> THEN PyNone
    ELSE IF IsRaise(Head(s)) THEN Head(s)
    ELSE FirstRaise(Tail(s))

\* mutant: the last usable address is the broadcast address itself
cidr_split_end_is_broadcast(cidr) ==
    IF cidr.kind # "str" THEN Raise("AttributeError")
    ELSE IF Len(cidr.num) # 5 THEN Raise("ValueError")
    ELSE IF \E i \in 1..4 : cidr.num[i] < 0 \/ cidr.num[i] > 255 THEN Raise("socket.error")
    ELSE IF 32 - cidr.num[5] <= 0 THEN Raise("ValueError")
    ELSE
      LET rtr      == SubSeq(cidr.num, 1, 4)
          mask     == cidr.num[5]
          maskbits == Ones(32 - mask)
          rtri     == ip2int(rtr)
          starti   == WideInc(rtri)
          endi     == WideOr(rtri, maskbits)
          subi     == WideAnd(rtri, WideXor(AllOnes, maskbits))
          out      == <<int2ip(starti), int2ip(endi), PyDotted(rtr), int2ip(subi),
                        PyDotted(<<mask>>)>>
      IN  IF FirstRaise(out) # PyNone THEN FirstRaise(out) ELSE PyTuple(out)

\* cidr_split (lines 119-128)
cidr_split(cidr) ==
    IF cidr.kind # "str" THEN Raise("AttributeError")
    ELSE IF Len(cidr.num) # 5 THEN Raise("ValueError")
    ELSE IF \E i \in 1..4 : cidr.num[i] < 0 \/ cidr.num[i] > 255 THEN Raise("socket.error")
    ELSE IF 32 - cidr.num[5] <= 0 THEN Raise("ValueError")
    ELSE
      LET rtr      == SubSeq(cidr.num, 1, 4)
          mask     == cidr.num[5]
          maskbits == Ones(32 - mask)
          rtri     == ip2int(rtr)
          starti   == WideInc(rtri)
          endi     == WideDec(WideOr(rtri, maskbits))
          subi     == WideAnd(rtri, WideXor(AllOnes, maskbits))
          out      == <<int2ip(starti), int2ip(endi), PyDotted(rtr), int2ip(subi),
                        PyDotted(<<mask>>)>>
      IN  IF FirstRaise(out) # PyNone THEN FirstRaise(out) ELSE PyTuple(out)

\* t[i] for a tuple t and a Python index i (from 0)
Item(t, i) == IF IsRaise(t) THEN t ELSE t.items[i + 1]

-----------------------------------------------------------------------------
\* config_default (lines 52-101)
config_default ==
    PyDict([
        aci_config |-> PyDict([
            system_id |-> PyStr("kube"),
            vrf |-> PyDict([name |-> PyStr("kube"), tenant |-> PyStr("common")]),
            l3out |-> PyDict([name |-> PyStr("l3out"),
                              external_networks |-> PyList(<<PyStr("default")>>)]),
            vmm_domain |-> PyDict([
                encap_type |-> PyStr("vxlan"),
                mcast_fabric |-> PyDotted(<<225, 1, 2, 3>>),
                mcast_range |-> PyDict([start |-> PyDotted(<<225, 2, 1, 1>>),
                                        end |-> PyDotted(<<225, 2, 255, 255>>)])]),
            client_cert |-> PyBool(FALSE),
            client_ssl |-> PyBool(TRUE)]),
        net_config |-> PyDict([
            node_subnet |-> PyDotted(<<10, 1, 0, 1, 16>>),
            pod_subnet |-> PyDotted(<<10, 2, 0, 1, 16>>),
            extern_dynamic |-> PyDotted(<<10, 3, 0, 1, 24>>),
            extern_static |-> PyDotted(<<10, 4, 0, 1, 24>>),
            node_svc_subnet |-> PyDotted(<<10, 5, 0, 1, 24>>),
            kubeapi_vlan |-> PyInt(4001),
            service_vlan |-> PyInt(4003),
            infra_vlan |-> PyInt(4093)]),
        kube_config |-> PyDict([
            controller |-> PyDotted(<<1, 1, 1, 1>>),
            use_cluster_role |-> PyBool(TRUE),
            use_ds_rolling_update |-> PyBool(TRUE)]),
        registry |-> PyDict([image_prefix |-> PyStr("noiro")]),
        logging |-> PyDict([
            controller_log_level |-> PyStr("info"),
            hostagent_log_level |-> PyStr("info"),
            opflexagent_log_level |-> PyStr("info"),
            aim_debug |-> PyStr("False")])])

\* config_user (lines 104-116): doc is what yaml.load returns for the document
config_user(config_file, doc) ==
    LET loaded == IF Truthy(config_file) THEN doc ELSE PyDict(NoKids)
    IN  IF loaded = PyNone THEN PyDict(NoKids) ELSE loaded

\* the command line config of main (lines 375-385)
cli_config(a) ==
    PyDict([aci_config |-> PyDict([apic_login |->
        PyDict([k \in {x \in {"username", "password"} : Truthy(a[x])} |-> a[k]])])])

\* "Create config" in main (lines 387-391): the tree config holds afterwards
create_config(a, doc) ==
    deep_merge(deep_merge(cli_config(a), config_user(a.config, doc)), config_default)

-----------------------------------------------------------------------------
\* config_validate (lines 230-255)

\* get (line 232): reduce(lambda x, y: x and x.get(y), t, config).  A false x
\* is passed on as it is, a dict is looked up with None for a missing key,
\* and any other true value has no get: AttributeError.
RECURSIVE ValidateGet(_, _)
ValidateGet(x, t) ==
    IF t = <<>> \/ IsRaise(x) THEN x
    ELSE IF ~Truthy(x) THEN ValidateGet(x, Tail(t))
    ELSE IF ~IsDict(x) THEN Raise("AttributeError")
    ELSE ValidateGet(IF Head(t) \in DOMAIN x.kids THEN x.kids[Head(t)] ELSE PyNone, Tail(t))

\* the checks table (lines 234-244): logical name and path
ValidateChecks ==
    << <<"system_id", <<"aci_config", "system_id">> >>,
       <<"aep", <<"aci_config", "aep">> >>,
       <<"apic_host", <<"aci_config", "apic_hosts">> >>,
       <<"apic_username", <<"aci_config", "apic_login", "username">> >>,
       <<"apic_password", <<"aci_config", "apic_login", "password">> >>,
       <<"uplink_if", <<"node_config", "uplink_iface">> >>,
       <<"vxlan_if", <<"node_config", "vxlan_uplink_iface">> >>,
       <<"kubeapi_vlan", <<"net_config", "kubeapi_vlan">> >>,
       <<"service_vlan", <<"net_config", "service_vlan">> >> >>

\* mutant: the loop stops at the first failing check
RECURSIVE ValidateLoopFirstOnly(_, _)
ValidateLoopFirstOnly(cfg, i) ==
    IF i > Len(ValidateChecks) THEN <<>>
    ELSE IF Truthy(ValidateGet(cfg, ValidateChecks[i][2])) THEN ValidateLoopFirstOnly(cfg, i + 1)
    ELSE <<ValidateChecks[i][1]>>

\* the loop of lines 247-254 from check i on: the names whose value is not
\* true, each reported by err; the order of the table stands for the order
\* in which Python walks the dict
RECURSIVE ValidateLoop(_, _)
ValidateLoop(cfg, i) ==
    IF i > Len(ValidateChecks) THEN <<>>
    ELSE (IF Truthy(ValidateGet(cfg, ValidateChecks[i][2])) THEN <<>>
          ELSE <<ValidateChecks[i][1]>>) \o ValidateLoop(cfg, i + 1)

\* the value config_validate returns (or the exception that leaves it while
\* the table is built) and the names it reports
config_validate(cfg) ==
    LET got  == [i \in 1..Len(ValidateChecks) |-> ValidateGet(cfg, ValidateChecks[i][2])]
        errs == ValidateLoop(cfg, 1)
    IN  IF FirstRaise(got) # PyNone
        THEN [ret |-> FirstRaise(got), errs |-> <<>>]
        ELSE [ret |-> PyBool(errs = <<>>), errs |-> errs]

-----------------------------------------------------------------------------
\* Calls of a single function, for the specifications that check one function
\* on its own: main's variables stay idle there, and call stays idle in Spec.

NoCall == [fn |-> "none", arg |-> PyNone, done |-> FALSE, ret |-> PyNone]

MainIdle ==
    /\ args = PyNone
    /\ yaml_doc = PyNone
    /\ apic_file = PyNone
    /\ pc = "idle"
    /\ prov_apic = PyNone
    /\ config = PyNone
    /\ adj_config = PyNone
    /\ ret = PyNone
    /\ exc = PyNone
    /\ log = <<>>
    /\ calls = <<>>
    /\ files = {}
    /\ valid = PyNone
    /\ stages = <<>>

MainVars == <<args, yaml_doc, apic_file, pc, prov_apic, config, adj_config,
              ret, exc, log, calls, files, valid, stages>>

-----------------------------------------------------------------------------
\* SpecCidr: cidr_split on its own.

\* octets tried in every position: the MaxLowOctet + 1 lowest and highest
MaxLowOctet == 1

CidrOctets == (0..MaxLowOctet) \cup ((255 - MaxLowOctet)..255)

\* the subnets of config_default (lines 77-81)
DefaultSubnets ==
    { <<10, 1, 0, 1, 16>>, <<10, 2, 0, 1, 16>>, <<10, 3, 0, 1, 24>>,
      <<10, 4, 0, 1, 24>>, <<10, 5, 0, 1, 24>> }

CidrInputs ==
    { <<a, b, c, d, n>> : a \in CidrOctets, b \in CidrOctets, c \in CidrOctets,
                          d \in CidrOctets, n \in 0..32 }
    \cup DefaultSubnets

InitCidr ==
    /\ MainIdle
    /\ \E i \in CidrInputs :
         call = [fn |-> "cidr_split", arg |-> PyDotted(i), done |-> FALSE, ret |-> PyNone]

CallCidrSplit ==
    /\ call.fn = "cidr_split"
    /\ ~call.done
    /\ call' = [call EXCEPT !.done = TRUE, !.ret = cidr_split(call.arg)]
    /\ UNCHANGED MainVars

NextCidr == CallCidrSplit

SpecCidr == InitCidr /\ [][NextCidr]_vars

\* the quantities the property of cidr_split is stated in
CidrAddr == ip2int(SubSeq(call.arg.num, 1, 4))

CidrHostOnes == Ones(32 - call.arg.num[5])

CidrBroadcast == WideOr(CidrAddr, CidrHostOnes)

CidrBase == WideAnd(CidrAddr, WideXor(AllOnes, CidrHostOnes))

CidrFirst == ip2int(call.ret.items[1].num)

CidrLast == ip2int(call.ret.items[2].num)

CidrSub == ip2int(call.ret.items[4].num)

CidrReturned == call.fn = "cidr_split" /\ call.done /\ call.arg.num[5] <= 30

Fits32(a) == a[1] >= 0 /\ a[1] <= 65535 /\ a[2] >= 0 /\ a[2] <= 65535

\* C4 as stated: for every address and 0 <= N <= 30, cidr_split returns with
\* first_usable = address + 1, last_usable below the next network's base
\* address, base <= address <= last_usable, base and last_usable as given by
\* the formulas, and every result within 32 bits.
C4_AsStated ==
    CidrReturned =>
        /\ call.ret.kind = "tuple"
        /\ CidrFirst = WideInc(CidrAddr)
        /\ CidrLast = WideDec(CidrBroadcast)
        /\ CidrSub = CidrBase
        /\ WideLess(CidrLast, WideInc(CidrBroadcast))
        /\ ~WideLess(CidrAddr, CidrSub)
        /\ ~WideLess(CidrLast, CidrAddr)
        /\ Fits32(CidrFirst) /\ Fits32(CidrLast) /\ Fits32(CidrSub)

\* C4 amended: the same holds whenever the host bits of the address are not
\* all ones; when they are, last_usable is address - 1 (below the address),
\* and for 255.255.255.255 first_usable is 2^32 and cidr_split raises
\* struct.error instead of returning.
C4_Cidr ==
    CidrReturned =>
        IF CidrAddr = AllOnes
        THEN call.ret = Raise("struct.error")
        ELSE /\ call.ret.kind = "tuple"
             /\ CidrFirst = WideInc(CidrAddr)
             /\ CidrLast = WideDec(CidrBroadcast)
             /\ CidrSub = CidrBase
             /\ WideLess(CidrLast, WideInc(CidrBroadcast))
             /\ ~WideLess(CidrAddr, CidrSub)
             /\ Fits32(CidrFirst) /\ Fits32(CidrLast) /\ Fits32(CidrSub)
             /\ IF CidrAddr = CidrBroadcast
                THEN CidrLast = WideDec(CidrAddr)
                ELSE ~WideLess(CidrLast, CidrAddr)

\* the pod subnet of the defaults, "10.2.0.1/16", has been split into
\* 10.2.0.2 .. 10.2.255.254 on base 10.2.0.0
C4_Witness ==
    /\ CidrReturned
    /\ call.arg = PyDotted(<<10, 2, 0, 1, 16>>)
    /\ call.ret = PyTuple(<<PyDotted(<<10, 2, 0, 2>>), PyDotted(<<10, 2, 255, 254>>),
                            PyDotted(<<10, 2, 0, 1>>), PyDotted(<<10, 2, 0, 0>>),
                            PyDotted(<<16>>)>>)

-----------------------------------------------------------------------------
\* The user's input documents tried (what yaml.load returns for them).

\* dict d without key k
DelItem(d, k) == PyDict([x \in DOMAIN d.kids \ {k} |-> d.kids[x]])

\* d[k1][k2] = v on nested dicts
SetItem2(d, k1, k2, v) == SetItem(d, k1, SetItem(d.kids[k1], k2, v))

\* del d[k1][k2]
DelItem2(d, k1, k2) == SetItem(d, k1, DelItem(d.kids[k1], k2))

FullDoc ==
    PyDict([
        aci_config |-> PyDict([
            system_id |-> PyStr("mykube"),
            aep |-> PyStr("kube-aep"),
            apic_hosts |-> PyList(<<PyDotted(<<10, 0, 0, 1>>)>>),
            apic_login |-> PyDict([username |-> PyStr("fileuser"),
                                   password |-> PyStr("filepass")])]),
        node_config |-> PyDict([
            uplink_iface |-> PyStr("eth1"),
            vxlan_uplink_iface |-> PyStr("eth1.4093")]),
        net_config |-> PyDict([infra_vlan |-> PyInt(3000)])])

UserDocs ==
    { FullDoc,
      \* credentials left to the command line
      DelItem2(FullDoc, "aci_config", "apic_login"),
      SetItem2(FullDoc, "aci_config", "apic_login", PyDict([username |-> PyStr("fileuser")])),
      \* every optional value left to the defaults
      DelItem(DelItem2(FullDoc, "aci_config", "system_id"), "net_config"),
      \* an empty document, and one that is no mapping
      PyNone,
      PyList(<<PyStr("aci_config")>>),
      \* required values that are false, null or no mapping
      SetItem2(FullDoc, "net_config", "kubeapi_vlan", PyInt(0)),
      SetItem(FullDoc, "net_config", PyNone),
      DelItem(FullDoc, "node_config"),
      SetItem(FullDoc, "node_config", PyStr("eth1")),
      \* values the later stages trip over
      SetItem2(FullDoc, "net_config", "pod_subnet", PyStr("pods")),
      SetItem2(FullDoc, "aci_config", "vrf", PyStr("myvrf")),
      SetItem(FullDoc, "aci_config", PyStr("fabric")) }

-----------------------------------------------------------------------------
\* SpecMerge: deep_merge on its own, on all trees of depth two over two keys,
\* and the three-way merge of main on the documents above.

\* number of distinct scalar leaves
MaxScalar == 1

MergeKeys == {"a", "b"}

MergeLeaves == {PyInt(i) : i \in 1..MaxScalar} \cup {PyList(<<PyInt(1)>>)}

DictsOver(V) == {PyDict(f) : f \in UNION {[S -> V] : S \in SUBSET MergeKeys}}

MergeTrees == MergeLeaves \cup DictsOver(MergeLeaves \cup DictsOver(MergeLeaves))

CliValues == {PyNone, PyStr(""), PyStr("cliuser")}

MergeArgs ==
    { [config |-> PyStr("-"), username |-> u, password |-> p] : u \in CliValues, p \in CliValues }

InitMerge ==
    /\ MainIdle
    /\ \/ \E u \in MergeTrees, d \in MergeTrees :
            call = [fn |-> "deep_merge", arg |-> <<u, d>>, done |-> FALSE, ret |-> PyNone]
       \/ \E a \in MergeArgs, doc \in UserDocs :
            call = [fn |-> "create_config", arg |-> <<a, doc>>, done |-> FALSE, ret |-> PyNone]

CallDeepMerge ==
    /\ call.fn = "deep_merge"
    /\ ~call.done
    /\ call' = [call EXCEPT !.done = TRUE, !.ret = deep_merge(call.arg[1], call.arg[2])]
    /\ UNCHANGED MainVars

CallCreateConfig ==
    /\ call.fn = "create_config"
    /\ ~call.done
    /\ call' = [call EXCEPT !.done = TRUE, !.ret = create_config(call.arg[1], call.arg[2])]
    /\ UNCHANGED MainVars

NextMerge == CallDeepMerge \/ CallCreateConfig

SpecMerge == InitMerge /\ [][NextMerge]_vars

MergePaths == {<<>>} \cup {<<k>> : k \in MergeKeys} \cup (MergeKeys \X MergeKeys)

\* the merge descends to path p: every proper prefix of p is a mapping in both trees
MergeReaches(u, d, p) ==
    \A i \in 0..(Len(p) - 1) :
        IsDict(SubscriptPath(u, SubSeq(p, 1, i))) /\ IsDict(SubscriptPath(d, SubSeq(p, 1, i)))

\* the contract of deep_merge at one path
MergedAt(u, d, r, p) ==
    LET pu == SubscriptPath(u, p)
        pd == SubscriptPath(d, p)
        pr == SubscriptPath(r, p)
    IN  IF IsRaise(pu) THEN pr = pd
        ELSE IF IsRaise(pd) THEN pr = pu
        ELSE IF IsDict(pu) /\ IsDict(pd)
             THEN IsDict(pr) /\ DOMAIN pr.kids = DOMAIN pu.kids \cup DOMAIN pd.kids
             ELSE pr = pu

\* the value found in a tree at a path, PyNone when the path does not resolve
ValueAt(t, p) == IF IsRaise(SubscriptPath(t, p)) THEN PyNone ELSE SubscriptPath(t, p)

\* tree t settles path p against the higher ranking tree above: it holds a
\* value at p, or a value that is no mapping on the way to p, where above
\* holds nothing
Settles(above, t, p) ==
    \E i \in 1..Len(p) :
        LET v == SubscriptPath(t, SubSeq(p, 1, i))
        IN  /\ ~IsRaise(v)
            /\ i = Len(p) \/ ~IsDict(v)
            /\ IsRaise(SubscriptPath(above, SubSeq(p, 1, i)))

LoginPath(f) == <<"aci_config", "apic_login", f>>

PrecedencePaths ==
    { LoginPath("username"), LoginPath("password"), <<"aci_config", "system_id">>,
      <<"aci_config", "aep">>, <<"net_config", "infra_vlan">>,
      <<"net_config", "kubeapi_vlan">>, <<"node_config", "uplink_iface">> }

\* C3: deep_merge(primary, secondary) adopts the secondary value at every key
\* only secondary has, merges recursively where both hold mappings, and keeps
\* the primary value wherever both hold a value and not both are mappings
\* (sequences are leaves).  In main, a username or password given on the
\* command line outranks the user's file, which outranks the defaults.
C3_DeepMerge ==
    /\ (call.fn = "deep_merge" /\ call.done) =>
         \A p \in MergePaths :
            MergeReaches(call.arg[1], call.arg[2], p)
                => MergedAt(call.arg[1], call.arg[2], call.ret, p)
    /\ (call.fn = "create_config" /\ call.done) =>
         LET a    == call.arg[1]
             cli  == cli_config(a)
             user == config_user(a.config, call.arg[2])
         IN  /\ \A f \in {"username", "password"} :
                  Truthy(a[f]) => SubscriptPath(call.ret, LoginPath(f)) = a[f]
             /\ \A p \in PrecedencePaths :
                  ValueAt(call.ret, p) =
                     IF ~IsRaise(SubscriptPath(cli, p)) THEN SubscriptPath(cli, p)
                     ELSE IF Settles(cli, user, p) THEN ValueAt(user, p)
                     ELSE ValueAt(config_default, p)

\* a nested merge has kept the primary leaf a.a against a sequence, adopted
\* the secondary leaves a.b and b, and merged the mapping a rather than
\* replacing it
C3_Witness ==
    /\ call.fn = "deep_merge" /\ call.done
    /\ call.arg[1] = PyDict([a |-> PyDict([a |-> PyInt(1)])])
    /\ call.arg[2] = PyDict([a |-> PyDict([a |-> PyList(<<PyInt(1)>>), b |-> PyInt(1)]),
                             b |-> PyInt(1)])
    /\ call.ret = PyDict([a |-> PyDict([a |-> PyInt(1), b |-> PyInt(1)]), b |-> PyInt(1)])

-----------------------------------------------------------------------------
\* SpecValidate: config_validate on its own.  A tree is built from the set of
\* required entries that hold a true value, the way the others are bad
\* (absent, or one of the false values) and the shape of the mappings on the
\* way.

\* number of false values tried for a bad entry, besides leaving it out
MaxFalsy == 3

FalsyValues == <<PyNone, PyStr(""), PyInt(0), PyBool(FALSE), PyList(<<>>), PyDict(NoKids)>>

CheckNames == {ValidateChecks[i][1] : i \in 1..Len(ValidateChecks)}

GoodValue(n) ==
    CASE n = "apic_host" -> PyList(<<PyDotted(<<10, 0, 0, 1>>)>>)
      [] n \in {"kubeapi_vlan", "service_vlan"} -> PyInt(4001)
      [] OTHER -> PyStr(n)

\* a mapping of the entries among checks i that are present
Section(names, good, bad) ==
    PyDict([k \in {ValidateChecks[i][2][Len(ValidateChecks[i][2])] :
                    i \in {j \in names : ValidateChecks[j][1] \in good \/ bad > 0}} |->
            LET i == CHOOSE j \in names :
                        ValidateChecks[j][2][Len(ValidateChecks[j][2])] = k
            IN  IF ValidateChecks[i][1] \in good THEN GoodValue(ValidateChecks[i][1])
                ELSE FalsyValues[bad]])

\* the mappings on the way, and what a shape puts in the place of one
Intermediates == {"aci_config", "apic_login", "node_config", "net_config"}

Shapes == {<<"ok", "ok">>} \cup (Intermediates \X {"missing", "null", "scalar", "list"})

Shaped(name, shape, d) ==
    IF shape[1] # name THEN d
    ELSE CASE shape[2] = "null" -> PyNone
           [] shape[2] = "scalar" -> PyStr("text")
           [] shape[2] = "list" -> PyList(<<PyStr("text")>>)
           [] OTHER -> d

WithKey(d, k, shape, v) == IF shape = <<k, "missing">> THEN d ELSE SetItem(d, k, Shaped(k, shape, v))

ValidateTree(good, bad, shape) ==
    LET login == Section({4, 5}, good, bad)
        aci   == WithKey(Section({1, 2, 3}, good, bad), "apic_login", shape, login)
        node  == Section({6, 7}, good, bad)
        net   == Section({8, 9}, good, bad)
    IN  WithKey(WithKey(WithKey(PyDict(NoKids), "aci_config", shape, aci),
                        "node_config", shape, node), "net_config", shape, net)

InitValidate ==
    /\ MainIdle
    /\ \E good \in SUBSET CheckNames, bad \in 0..MaxFalsy, shape \in Shapes :
         call = [fn |-> "config_validate", arg |-> ValidateTree(good, bad, shape),
                 done |-> FALSE, ret |-> PyNone]

CallConfigValidate ==
    /\ call.fn = "config_validate"
    /\ ~call.done
    /\ call' = [call EXCEPT !.done = TRUE, !.ret = config_validate(call.arg)]
    /\ UNCHANGED MainVars

NextValidate == CallConfigValidate

SpecValidate == InitValidate /\ [][NextValidate]_vars

\* the required entries whose path does not resolve to a true value
Unresolved(t) ==
    { ValidateChecks[i][1] : i \in { j \in 1..Len(ValidateChecks) :
        ~Truthy(ValueAt(t, ValidateChecks[j][2])) } }

\* a required path runs through a true value that is no mapping
CrossesScalar(t) ==
    \E i \in 1..Len(ValidateChecks) : \E n \in 1..(Len(ValidateChecks[i][2]) - 1) :
        LET v == SubscriptPath(t, SubSeq(ValidateChecks[i][2], 1, n))
        IN  ~IsRaise(v) /\ Truthy(v) /\ ~IsDict(v)

Reported(r) == {r.errs[i] : i \in 1..Len(r.errs)}

ValidateReturned == call.fn = "config_validate" /\ call.done

\* C5 as stated: for every tree config_validate returns, reports exactly the
\* required entries whose path does not resolve to a true value, and fails
\* iff there is one; without the password 'apic_password' is reported.
C5_AsStated ==
    ValidateReturned =>
        /\ call.ret.ret.kind = "bool"
        /\ Reported(call.ret) = Unresolved(call.arg)
        /\ call.ret.ret = PyBool(Unresolved(call.arg) = {})
        /\ ~Truthy(ValueAt(call.arg, LoginPath("password")))
              => "apic_password" \in Reported(call.ret)

\* C5 amended: that holds for every tree in which no required path runs
\* through a true value that is no mapping (a string, a number, a list);
\* on such a tree config_validate raises AttributeError and reports nothing.
C5_Validate ==
    ValidateReturned =>
        IF CrossesScalar(call.arg)
        THEN call.ret = [ret |-> Raise("AttributeError"), errs |-> <<>>]
        ELSE /\ Reported(call.ret) = Unresolved(call.arg)
             /\ Len(call.ret.errs) = Cardinality(Unresolved(call.arg))
             /\ call.ret.ret = PyBool(Unresolved(call.arg) = {})
             /\ ~Truthy(ValueAt(call.arg, LoginPath("password")))
                   => "apic_password" \in Reported(call.ret)

\* a tree lacking the password and the VXLAN uplink, and nothing else, has
\* failed with exactly those two names reported
C5_Witness ==
    /\ ValidateReturned
    /\ call.arg = ValidateTree(CheckNames \ {"apic_password", "vxlan_if"}, 0, <<"ok", "ok">>)
    /\ call.ret = [ret |-> PyBool(FALSE), errs |-> <<"apic_password", "vxlan_if">>]

-----------------------------------------------------------------------------
\* The fabric controller client (module apic).  A call is recorded with its
\* operation, its arguments and what it gave: a value, or an exception.

ApicCall(op, arg, result) == [op |-> op, arg |-> arg, result |-> result]

\* what the client may answer: construction and submission succeed or raise,
\* a lookup finds the object, finds nothing (None) or raises
ApicError == Raise("ApicError")

ApicObject == PyStr("apic")

FoundObject == PyStr("found")

\* number of VLANs the fabric may report besides the default's own
MaxLiveVlan == 1

LiveVlans == {PyInt(SubscriptPath(config_default, <<"net_config", "infra_vlan">>).num[1] - i) :
                 i \in 0..MaxLiveVlan}

\* v[0] (line 333)
IndexZero(v) ==
    CASE IsRaise(v) -> v
      [] v.kind = "list" -> IF v.items = <<>> THEN Raise("IndexError") ELSE v.items[1]
      [] v.kind = "str" -> IF Truthy(v) THEN v ELSE Raise("IndexError")
      [] v.kind = "dict" -> Raise("KeyError")
      [] OTHER -> Raise("TypeError")

\* get_apic (lines 332-337): the client, or the exception, and the call made
get_apic(cfg, answer) ==
    LET apic_host     == IndexZero(SubscriptPath(cfg, <<"aci_config", "apic_hosts">>))
        apic_username == SubscriptPath(cfg, <<"aci_config", "apic_login", "username">>)
        apic_password == SubscriptPath(cfg, <<"aci_config", "apic_login", "password">>)
        looked        == <<apic_host, apic_username, apic_password>>
    IN  IF FirstRaise(looked) # PyNone
        THEN [ret |-> FirstRaise(looked), calls |-> <<>>]
        ELSE [ret |-> answer, calls |-> <<ApicCall("Apic", PyTuple(looked), answer)>>]

-----------------------------------------------------------------------------
\* config_adjust (lines 131-227)

\* s + suffix (lines 152-158): TypeError unless s is a string
StrConcat(s, suffix) ==
    IF IsRaise(s) THEN s
    ELSE IF s.kind # "str" THEN Raise("TypeError")
    ELSE [s EXCEPT !.str = s.str \o suffix]

\* {"start": cidr_split(c)[0], "end": cidr_split(c)[1]}
IpPool(c) ==
    IF IsRaise(cidr_split(c)) THEN cidr_split(c)
    ELSE PyList(<<PyDict([start |-> Item(cidr_split(c), 0), end |-> Item(cidr_split(c), 1)])>>)

\* the pod_network entry (lines 192-203)
PodNetwork(c) ==
    IF IsRaise(cidr_split(c)) THEN cidr_split(c)
    ELSE PyList(<<PyDict([
            subnet |-> PyDotted(Item(cidr_split(c), 3).num \o Item(cidr_split(c), 4).num),
            gateway |-> Item(cidr_split(c), 2),
            routes |-> PyList(<<PyDict([dst |-> PyDotted(<<0, 0, 0, 0, 0>>),
                                        gw |-> Item(cidr_split(c), 2)])>>)])>>)

\* fab: what the fabric answers, [apic, infra_vlan]
config_adjust(cfg, prov, fab) ==
    LET ga              == IF prov # PyNone THEN get_apic(cfg, fab.apic)
                           ELSE [ret |-> PyNone, calls |-> <<>>]
        apic            == ga.ret
        system_id       == SubscriptPath(cfg, <<"aci_config", "system_id">>)
        static_vlan     == SubscriptPath(cfg, <<"net_config", "infra_vlan">>)
        before          == FirstRaise(<<apic, system_id, static_vlan>>)
        infra_vlan      == IF apic # PyNone THEN fab.infra_vlan ELSE static_vlan
        asked           == IF before = PyNone /\ apic # PyNone
                           THEN <<ApicCall("get_infravlan", PyTuple(<<>>), fab.infra_vlan)>>
                           ELSE <<>>
        pod_subnet      == SubscriptPath(cfg, <<"net_config", "pod_subnet">>)
        extern_dynamic  == SubscriptPath(cfg, <<"net_config", "extern_dynamic">>)
        extern_static   == SubscriptPath(cfg, <<"net_config", "extern_static">>)
        node_svc_subnet == SubscriptPath(cfg, <<"net_config", "node_svc_subnet">>)
        encap_type      == SubscriptPath(cfg, <<"aci_config", "vmm_domain", "encap_type">>)
        tenant          == system_id
        kubernetes      == PyStr("kubernetes")
        parts           == <<apic, system_id, static_vlan, infra_vlan, pod_subnet,
                             extern_dynamic, extern_static, node_svc_subnet, encap_type,
                             StrConcat(system_id, "-pdom"), IpPool(pod_subnet),
                             PodNetwork(pod_subnet), IpPool(extern_dynamic),
                             IpPool(extern_static), IpPool(node_svc_subnet)>>
        adj == PyDict([
            aci_config |-> PyDict([
                cluster_tenant |-> tenant,
                physical_domain |-> PyDict([domain |-> StrConcat(system_id, "-pdom"),
                                            vlan_pool |-> StrConcat(system_id, "-pool")]),
                vmm_domain |-> PyDict([domain |-> system_id,
                                       controller |-> system_id,
                                       mcast_pool |-> StrConcat(system_id, "-mpool")]),
                aim_login |-> PyDict([username |-> system_id,
                                      password |-> PyStr("ToBeFixed!"),
                                      certfile |-> PyNone])]),
            net_config |-> PyDict([infra_vlan |-> infra_vlan]),
            node_config |-> PyDict([encap_type |-> encap_type]),
            kube_config |-> PyDict([
                default_endpoint_group |-> PyDict([tenant |-> tenant,
                                                   app_profile |-> kubernetes,
                                                   group |-> PyStr("kube-default")]),
                namespace_default_endpoint_group |-> PyDict(
                    "kube-system" :> PyDict([tenant |-> tenant,
                                             app_profile |-> kubernetes,
                                             group |-> PyStr("kube-system")])),
                pod_ip_pool |-> IpPool(pod_subnet),
                pod_network |-> PodNetwork(pod_subnet),
                service_ip_pool |-> IpPool(extern_dynamic),
                static_service_ip_pool |-> IpPool(extern_static),
                node_service_ip_pool |-> IpPool(node_svc_subnet),
                node_service_gw_subnets |-> PyList(<<node_svc_subnet>>)])])
    IN  [ret |-> IF FirstRaise(parts) # PyNone THEN FirstRaise(parts) ELSE adj,
         calls |-> ga.calls \o asked]

\* mutant: only the generic merge, without lines 401-402
merge_adjusted_generic_only(cfg, adj) == deep_merge(cfg, adj)

\* lines 400-402 of main: the derived tree merged in, then infra_vlan forced
merge_adjusted(cfg, adj) ==
    SetItem2(deep_merge(cfg, adj), "net_config", "infra_vlan",
             SubscriptPath(adj, <<"net_config", "infra_vlan">>))

-----------------------------------------------------------------------------
\* config_advise (lines 258-282)

LogLine(level, msg) == [level |-> level, msg |-> msg]

\* one existence check of the try block: the lookups of its arguments, the
\* query, and the warning when the object is missing.  st is [exc, calls, warns].
AdviseCheck(st, op, lookups, answer, missing) ==
    IF st.exc # PyNone THEN st
    ELSE IF FirstRaise(lookups) # PyNone THEN [st EXCEPT !.exc = FirstRaise(lookups)]
    ELSE [exc   |-> IF IsRaise(answer) THEN answer ELSE PyNone,
          calls |-> Append(st.calls, ApicCall(op, PyTuple(lookups), answer)),
          warns |-> IF answer = PyNone THEN Append(st.warns, LogLine("WARN", missing))
                    ELSE st.warns]

\* the body of the try block (lines 260-278); fab is [apic, aep, vrf, l3out]
config_advise_try(cfg, prov, fab) ==
    IF prov = PyNone THEN [exc |-> PyNone, calls |-> <<>>, warns |-> <<>>]
    ELSE
      LET ga         == get_apic(cfg, fab.apic)
          st0        == [exc |-> IF IsRaise(ga.ret) THEN ga.ret ELSE PyNone,
                         calls |-> ga.calls, warns |-> <<>>]
          aep_name   == SubscriptPath(cfg, <<"aci_config", "aep">>)
          st1        == AdviseCheck(st0, "get_aep", <<aep_name>>, fab.aep,
                                    "AEP not defined in the APIC")
          vrf_tenant == SubscriptPath(cfg, <<"aci_config", "vrf", "tenant">>)
          vrf_name   == SubscriptPath(cfg, <<"aci_config", "vrf", "name">>)
          l3out_name == SubscriptPath(cfg, <<"aci_config", "l3out", "name">>)
          st2        == IF st1.exc = PyNone /\ FirstRaise(<<vrf_tenant, vrf_name, l3out_name>>) # PyNone
                        THEN [st1 EXCEPT !.exc = FirstRaise(<<vrf_tenant, vrf_name, l3out_name>>)]
                        ELSE AdviseCheck(st1, "get_vrf", <<vrf_tenant, vrf_name>>, fab.vrf,
                                         "VRF not defined in the APIC")
      IN  AdviseCheck(st2, "get_l3out", <<vrf_tenant, l3out_name>>, fab.l3out,
                      "L3out not defined in the APIC")

AdviseErrorMsg == "Error in validating existence of AEP"

\* mutant: no except clause, the exception leaves config_advise
config_advise_propagates(cfg, prov, fab) ==
    LET body == config_advise_try(cfg, prov, fab)
    IN  [ret   |-> IF body.exc # PyNone THEN body.exc ELSE PyBool(TRUE),
         calls |-> body.calls,
         warns |-> body.warns]

config_advise(cfg, prov, fab) ==
    LET body == config_advise_try(cfg, prov, fab)
    IN  [ret   |-> PyBool(TRUE),
         calls |-> body.calls,
         warns |-> IF body.exc # PyNone
                   THEN Append(body.warns, LogLine("WARN", AdviseErrorMsg))
                   ELSE body.warns]

-----------------------------------------------------------------------------
\* The output generators (lines 285-329)

Artifact(kind, target, content) == [artifact |-> kind, target |-> target, content |-> content]

\* ApicKubeConfig(config).get_config(): the descriptor, a function of the tree
ApicKubeConfig_get_config(cfg) == PyTuple(<<PyStr("ApicKubeConfig"), cfg>>)

\* a file name, or "-" for the standard stream
TargetName(t) == IF t = PyStr("-") THEN PyStr("STDOUT") ELSE t

\* generate_kube_yaml (lines 291-309)
generate_kube_yaml(cfg, output) ==
    [ret   |-> cfg,
     files |-> IF Truthy(output) THEN {Artifact("kube_yaml", TargetName(output), cfg)} ELSE {},
     log   |-> IF Truthy(output)
               THEN <<LogLine("INFO", "Writing kubernetes infrastructure YAML")>>
               ELSE <<>>]

\* mutant: apply submits for deletion and remove for creation
apic_submit_op_swapped(prov) == IF prov = PyBool(TRUE) THEN "unprovision" ELSE "provision"

\* lines 325-328: the operation the descriptor is submitted with
apic_submit_op(prov) == IF prov = PyBool(TRUE) THEN "provision" ELSE "unprovision"

\* lines 323-328 of generate_apic_config; fab is [apic, submit]
apic_submit(cfg, prov, apic_config, fab) ==
    IF prov = PyNone THEN [exc |-> PyNone, calls |-> <<>>]
    ELSE
      LET ga == get_apic(cfg, fab.apic)
      IN  IF IsRaise(ga.ret) THEN [exc |-> ga.ret, calls |-> ga.calls]
          ELSE [exc   |-> IF IsRaise(fab.submit) THEN fab.submit ELSE PyNone,
                calls |-> Append(ga.calls, ApicCall(apic_submit_op(prov),
                                                    PyTuple(<<apic_config>>), fab.submit))]

\* mutant: the descriptor is written only after the fabric accepted it
generate_apic_config_write_last(cfg, prov, file, fab) ==
    LET apic_config == ApicKubeConfig_get_config(cfg)
        sub         == apic_submit(cfg, prov, apic_config, fab)
        written     == Truthy(file) /\ sub.exc = PyNone
    IN  [ret   |-> IF sub.exc # PyNone THEN sub.exc ELSE apic_config,
         files |-> IF written THEN {Artifact("apic_config", TargetName(file), apic_config)}
                   ELSE {},
         log   |-> IF written THEN <<LogLine("INFO", "Writing apic configuration")>> ELSE <<>>,
         calls |-> sub.calls]

\* generate_apic_config (lines 312-329)
generate_apic_config(cfg, prov, file, fab) ==
    LET apic_config == ApicKubeConfig_get_config(cfg)
        sub         == apic_submit(cfg, prov, apic_config, fab)
    IN  [ret   |-> IF sub.exc # PyNone THEN sub.exc ELSE apic_config,
         files |-> IF Truthy(file)
                   THEN {Artifact("apic_config", TargetName(file), apic_config)}
                   ELSE {},
         log   |-> IF Truthy(file) THEN <<LogLine("INFO", "Writing apic configuration")>>
                   ELSE <<>>,
         calls |-> sub.calls]

-----------------------------------------------------------------------------
\* main (lines 361-411), one action per stage.

\* mutant: the delete flag alone asks for removal
provisioning_intent_delete_implies(a) ==
    IF a.delete THEN PyBool(FALSE) ELSE IF a.apic THEN PyBool(TRUE) ELSE PyNone

\* lines 364-368: prov_apic from the flags
provisioning_intent(a) ==
    IF a.apic THEN (IF a.delete THEN PyBool(FALSE) ELSE PyBool(TRUE)) ELSE PyNone

\* mutant: the result of config_validate is ignored
validation_passed_always(v) == TRUE

\* line 394: the gate, "if not config_validate(config)" does not fire
validation_passed(v) == Truthy(v)

\* mutant: main adjusts first and validates the adjusted tree
main_next_adjust_first(at) ==
    CASE at = "create" -> "adjust"
      [] at = "adjust" -> "validate"
      [] at = "validate" -> "advise"
      [] at = "advise" -> "generate_apic"
      [] at = "generate_apic" -> "generate_kube"
      [] at = "generate_kube" -> "done"

\* the order of the statements of main (lines 387-411): the stage after a
\* stage that neither returned nor raised
main_next(at) ==
    CASE at = "create" -> "validate"
      [] at = "validate" -> "adjust"
      [] at = "adjust" -> "advise"
      [] at = "advise" -> "generate_apic"
      [] at = "generate_apic" -> "generate_kube"
      [] at = "generate_kube" -> "done"

ArgsSet ==
    [config : {PyNone, PyStr("-")}, output : {PyNone, PyStr("-")},
     apic : BOOLEAN, delete : BOOLEAN, sample : BOOLEAN,
     username : CliValues, password : {PyNone, PyStr("clipass")}]

ApicFiles == {PyNone, PyStr("apic.txt")}

Init ==
    /\ args \in ArgsSet
    /\ yaml_doc \in (IF Truthy(args.config) THEN UserDocs ELSE {PyNone})
    /\ apic_file \in ApicFiles
    /\ pc = "start"
    /\ prov_apic = PyNone
    /\ config = PyNone
    /\ adj_config = PyNone
    /\ ret = PyNone
    /\ exc = PyNone
    /\ log = <<>>
    /\ calls = <<>>
    /\ files = {}
    /\ valid = PyNone
    /\ stages = <<>>
    /\ call = NoCall

\* lines 362-373: the intent, and the sample instead of the pipeline
MainStart ==
    /\ pc = "start"
    /\ prov_apic' = provisioning_intent(args)
    /\ IF args.sample
       THEN /\ files' = files \cup {Artifact("sample", PyStr("STDOUT"),
                                             PyStr("provision-config.yaml"))}
            /\ ret' = PyBool(TRUE)
            /\ pc' = "done"
       ELSE /\ pc' = "create"
            /\ UNCHANGED <<files, ret>>
    /\ UNCHANGED <<args, yaml_doc, apic_file, config, adj_config, exc, log, calls,
                   valid, stages, call>>

\* lines 375-391: the command line config merged with the file, then the defaults
MainCreateConfig ==
    /\ pc = "create"
    /\ config' = create_config(args, yaml_doc)
    /\ log' = log \o (IF Truthy(args.config)
                      THEN <<LogLine("INFO", "Loading configuration")>> ELSE <<>>)
    /\ stages' = stages \o <<"deep_merge(user)", "deep_merge(default)">>
    /\ pc' = main_next("create")
    /\ UNCHANGED <<args, yaml_doc, apic_file, prov_apic, adj_config, ret, exc, calls,
                   files, valid, call>>

\* lines 393-396
MainValidate ==
    /\ pc = "validate"
    /\ LET v == config_validate(config)
       IN  /\ valid' = v.ret
           /\ stages' = Append(stages, "config_validate")
           /\ IF IsRaise(v.ret)
              THEN /\ exc' = v.ret
                   /\ pc' = "raised"
                   /\ UNCHANGED <<log, ret>>
              ELSE IF ~validation_passed(v.ret)
              THEN /\ log' = log \o [i \in 1..Len(v.errs) |-> LogLine("ERR", v.errs[i])]
                               \o <<LogLine("ERR", "Please fix configuration and retry.")>>
                   /\ ret' = PyBool(FALSE)
                   /\ pc' = "done"
                   /\ UNCHANGED exc
              ELSE /\ log' = log \o [i \in 1..Len(v.errs) |-> LogLine("ERR", v.errs[i])]
                   /\ pc' = main_next("validate")
                   /\ UNCHANGED <<exc, ret>>
    /\ UNCHANGED <<args, yaml_doc, apic_file, prov_apic, config, adj_config, calls,
                   files, call>>

AdjustAnswers(prov) ==
    IF prov = PyNone THEN {[apic |-> PyNone, infra_vlan |-> PyNone]}
    ELSE [apic : {ApicObject, ApicError}, infra_vlan : LiveVlans \cup {ApicError}]

\* lines 398-402
MainAdjust ==
    /\ pc = "adjust"
    /\ \E fab \in AdjustAnswers(prov_apic) :
         LET r == config_adjust(config, prov_apic, fab)
         IN  /\ calls' = calls \o r.calls
             /\ IF IsRaise(r.ret)
                THEN /\ exc' = r.ret
                     /\ pc' = "raised"
                     /\ stages' = Append(stages, "config_adjust")
                     /\ UNCHANGED <<config, adj_config>>
                ELSE /\ adj_config' = r.ret
                     /\ config' = merge_adjusted(config, r.ret)
                     /\ stages' = stages \o <<"config_adjust", "deep_merge(adjusted)">>
                     /\ pc' = main_next("adjust")
                     /\ UNCHANGED exc
    /\ UNCHANGED <<args, yaml_doc, apic_file, prov_apic, ret, log, files, valid, call>>

LookupAnswers == {FoundObject, PyNone, ApicError}

AdviseAnswers(prov) ==
    IF prov = PyNone THEN {[apic |-> PyNone, aep |-> PyNone, vrf |-> PyNone, l3out |-> PyNone]}
    ELSE [apic : {ApicObject, ApicError}, aep : LookupAnswers, vrf : LookupAnswers,
          l3out : LookupAnswers]

\* lines 404-406
MainAdvise ==
    /\ pc = "advise"
    /\ \E fab \in AdviseAnswers(prov_apic) :
         LET r == config_advise(config, prov_apic, fab)
         IN  /\ calls' = calls \o r.calls
             /\ log' = log \o r.warns
             /\ stages' = Append(stages, "config_advise")
             /\ IF IsRaise(r.ret)
                THEN exc' = r.ret /\ pc' = "raised"
                ELSE pc' = main_next("advise") /\ UNCHANGED exc
    /\ UNCHANGED <<args, yaml_doc, apic_file, prov_apic, config, adj_config, ret, files,
                   valid, call>>

SubmitAnswers(prov) ==
    IF prov = PyNone THEN {[apic |-> PyNone, submit |-> PyNone]}
    ELSE [apic : {ApicObject, ApicError}, submit : {PyNone, ApicError}]

\* lines 408-409
MainGenerateApic ==
    /\ pc = "generate_apic"
    /\ \E fab \in SubmitAnswers(prov_apic) :
         LET r == generate_apic_config(config, prov_apic, apic_file, fab)
         IN  /\ calls' = calls \o r.calls
             /\ log' = log \o r.log
             /\ files' = files \cup r.files
             /\ stages' = Append(stages, "generate_apic_config")
             /\ IF IsRaise(r.ret)
                THEN exc' = r.ret /\ pc' = "raised"
                ELSE pc' = main_next("generate_apic") /\ UNCHANGED exc
    /\ UNCHANGED <<args, yaml_doc, apic_file, prov_apic, config, adj_config, ret, valid, call>>

\* lines 410-411
MainGenerateKube ==
    /\ pc = "generate_kube"
    /\ LET r == generate_kube_yaml(config, args.output)
       IN  /\ log' = log \o r.log
           /\ files' = files \cup r.files
           /\ stages' = Append(stages, "generate_kube_yaml")
    /\ pc' = main_next("generate_kube")
    /\ ret' = PyBool(TRUE)
    /\ UNCHANGED <<args, yaml_doc, apic_file, prov_apic, config, adj_config, exc, calls,
                   valid, call>>

Next ==
    \/ MainStart
    \/ MainCreateConfig
    \/ MainValidate
    \/ MainAdjust
    \/ MainAdvise
    \/ MainGenerateApic
    \/ MainGenerateKube

Spec == Init /\ [][Next]_vars

-----------------------------------------------------------------------------
\* Properties of main, checked under Spec.

Ops(cs) == {cs[i].op : i \in 1..Len(cs)}

Artifacts == {f.artifact : f \in files}

Last(q) == q[Len(q)]

\* main has returned from the pipeline (not from the sample) with success
Completed == pc = "done" /\ ret = PyBool(TRUE) /\ ~args.sample

InfraVlanPath == <<"net_config", "infra_vlan">>

\* C1: when config_validate returns failure main returns the failure
\* indicator, has written neither artifact (nor anything else) and has made
\* no provision or unprovision call, whatever the flags and the input.
C1_HardGate ==
    valid = PyBool(FALSE) =>
        /\ pc = "done"
        /\ ret = PyBool(FALSE)
        /\ exc = PyNone
        /\ files = {}
        /\ Ops(calls) \cap {"provision", "unprovision"} = {}
        /\ adj_config = PyNone

\* validation has failed in a run asked to provision and to write both files
C1_Witness ==
    /\ valid = PyBool(FALSE)
    /\ ret = PyBool(FALSE)
    /\ args.apic /\ ~args.delete
    /\ Truthy(apic_file) /\ Truthy(args.output)
    /\ Last(log) = LogLine("ERR", "Please fix configuration and retry.")

StageOrder ==
    <<"deep_merge(user)", "deep_merge(default)", "config_validate", "config_adjust",
      "deep_merge(adjusted)", "config_advise", "generate_apic_config", "generate_kube_yaml">>

IsPrefix(q, t) == Len(q) <= Len(t) /\ SubSeq(t, 1, Len(q)) = q

\* C2 as stated: the Adjuster has run and its derived fields have been merged
\* into the tree before the Validator checks the tree.
C2_AsStated ==
    /\ pc = "validate" => adj_config # PyNone
    /\ \A j \in 1..Len(stages) :
          stages[j] = "config_validate" =>
              \E i \in 1..(j - 1) : stages[i] = "deep_merge(adjusted)"

\* C2 amended: the stages run in the order merge with the user file, merge
\* with the defaults, validate, adjust (derived fields merged in), advise,
\* generate; the Validator checks the tree before the Adjuster has run, and
\* the Adjuster runs only on a tree that passed validation.
C2_StageOrder ==
    /\ IsPrefix(stages, StageOrder)
    /\ pc = "validate" => adj_config = PyNone /\ config = create_config(args, yaml_doc)
    /\ (pc = "adjust" \/ adj_config # PyNone) => valid = PyBool(TRUE)

\* a run has gone through every stage
C2_Witness == Completed /\ stages = StageOrder /\ adj_config # PyNone

\* C6: with the intent unset no fabric call of any kind is made; with apply
\* the descriptor is submitted with provision and unprovision is never
\* called; with remove it is submitted with unprovision and provision is
\* never called.
C6_FabricCalls ==
    /\ prov_apic = PyNone => calls = <<>>
    /\ prov_apic = PyBool(TRUE) => "unprovision" \notin Ops(calls)
    /\ prov_apic = PyBool(FALSE) => "provision" \notin Ops(calls)
    /\ (prov_apic # PyNone /\ (pc = "generate_kube" \/ Completed)) =>
          /\ Last(calls) = ApicCall(IF prov_apic = PyBool(TRUE) THEN "provision"
                                    ELSE "unprovision",
                                    PyTuple(<<ApicKubeConfig_get_config(config)>>), PyNone)
          /\ Cardinality({i \in 1..Len(calls) :
                             calls[i].op \in {"provision", "unprovision"}}) = 1

\* a run with intent apply has queried the VLAN and the three objects and
\* has submitted the descriptor with provision
C6_Witness ==
    /\ Completed
    /\ prov_apic = PyBool(TRUE)
    /\ Ops(calls) = {"Apic", "get_infravlan", "get_aep", "get_vrf", "get_l3out", "provision"}

ErrorWarnings(lg, n) == {i \in (n + 1)..Len(lg) : lg[i] = LogLine("WARN", AdviseErrorMsg)}

\* C8: whatever the fabric answers to the Advisor (each object found or
\* missing, a query or the construction of the client raising), the step of
\* main from the Advisor leads to output generation with no exception; a
\* raised failure yields a single warning, the last line the Advisor logs,
\* and ends the Advisor's queries.
C8_AdvisorNeverFatal ==
    [][pc = "advise" =>
         /\ pc' = "generate_apic"
         /\ exc' = PyNone
         /\ \A i \in (Len(log) + 1)..Len(log') : log'[i].level = "WARN"
         /\ Cardinality(ErrorWarnings(log', Len(log))) <= 1
         /\ \A i \in (Len(calls) + 1)..Len(calls') :
               IsRaise(calls'[i].result) =>
                   /\ i = Len(calls')
                   /\ ErrorWarnings(log', Len(log)) = {Len(log')}]_vars

\* the Advisor found the attachment profile missing, then its VRF query
\* raised: two warnings, and main stands at output generation
C8_Witness ==
    /\ pc = "generate_apic"
    /\ exc = PyNone
    /\ calls # <<>>
    /\ Last(calls).op = "get_vrf" /\ IsRaise(Last(calls).result)
    /\ Len(log) >= 2
    /\ log[Len(log) - 1] = LogLine("WARN", "AEP not defined in the APIC")
    /\ Last(log) = LogLine("WARN", AdviseErrorMsg)

\* the VLAN the Adjuster resolves: the fabric's answer when the intent is
\* set, the value of the merged tree otherwise
ResolvedVlan ==
    IF prov_apic # PyNone
    THEN calls[CHOOSE i \in 1..Len(calls) : calls[i].op = "get_infravlan"].result
    ELSE SubscriptPath(create_config(args, yaml_doc), InfraVlanPath)

\* C9: in every run that reaches output generation the final tree's
\* net_config.infra_vlan is the value the Adjuster resolved, whatever the
\* default and the user's value.
C9_ResolvedVlanWins ==
    pc \in {"advise", "generate_apic", "generate_kube", "done"} /\ adj_config # PyNone =>
        /\ SubscriptPath(config, InfraVlanPath) = ResolvedVlan
        /\ SubscriptPath(adj_config, InfraVlanPath) = ResolvedVlan
        /\ \A f \in files : f.artifact = "kube_yaml" =>
              SubscriptPath(f.content, InfraVlanPath) = ResolvedVlan

\* with the user's file asking for VLAN 3000 and the default being 4093, the
\* fabric answered 4092 and the manifest was written with 4092
C9_Witness ==
    /\ Completed
    /\ prov_apic # PyNone
    /\ SubscriptPath(create_config(args, yaml_doc), InfraVlanPath) = PyInt(3000)
    /\ SubscriptPath(config, InfraVlanPath) = PyInt(4092)
    /\ "kube_yaml" \in Artifacts

\* the apply/unprovision call of the Output Generator has failed
SubmitFailed ==
    /\ pc = "raised"
    /\ calls # <<>>
    /\ Last(calls).op \in {"provision", "unprovision"}
    /\ IsRaise(Last(calls).result)

\* C10 as stated: in every run where that call fails both artifacts, the
\* provisioning descriptor and the deployment manifest, have been written.
C10_AsStated == SubmitFailed => {"apic_config", "kube_yaml"} \subseteq Artifacts

\* C10 amended: in every run where that call fails the provisioning
\* descriptor has already been written when main was given a target for it
\* (and stays written), while the deployment manifest is not written: the
\* failure leaves main as an exception before generate_kube_yaml runs.
C10_SubmitFailure ==
    SubmitFailed =>
        /\ exc = Last(calls).result
        /\ ret = PyNone
        /\ "apic_config" \in Artifacts <=> Truthy(apic_file)
        /\ "kube_yaml" \notin Artifacts
        /\ "generate_kube_yaml" \notin Ops([i \in 1..Len(stages) |-> [op |-> stages[i]]])

\* provisioning failed in a run given targets for both artifacts: only the
\* descriptor exists
C10_Witness ==
    /\ SubmitFailed
    /\ Truthy(apic_file) /\ Truthy(args.output)
    /\ Artifacts = {"apic_config"}

====
